---- MODULE Spec2Model ----
(***************************************************************************)
(* vgloc: the background repository loader (src/app/loader.rs) and the     *)
(* part of the UI that drives it (App::show_plot_panel in src/app.rs).     *)
(*                                                                         *)
(* Two threads: the worker (loader_main / loader_loop) and the consumer    *)
(* (the egui frame callback).  They share two std::sync::mpsc              *)
(* sync_channels: commands (capacity 1) and results (capacity 1024).       *)
(* The git and file-system calls are external; each is a nondeterministic  *)
(* choice over the outcomes the call can have (Ok, Err), and the code's    *)
(* `?`, map_err, unwrap and expect decide what each outcome does.          *)
(***************************************************************************)
EXTENDS Integers, Sequences, FiniteSets, TLC

\* ---------------------------------------------------------------- bounds
\* Largest depth a Config may carry.
MaxDepth == 2
\* Number of commits of the fixture history (a linear chain 1 .. NCommits).
NCommits == 2
\* Number of commands (update_config and shutdown calls) the consumer issues.
MaxCmds == 2
\* Number of times the "process" button is clicked when the consumer is App.
MaxClicks == 4
\* Capacity of the result channel in the model.  The program's channel is
\* sync_channel(1024) (loader.rs:56); the model keeps its blocking, bounded
\* FIFO behaviour with a small capacity so that "full" is reachable.
DataCap == 2

\* ------------------------------------------------------ program constants
\* sync_channel::<LoaderCommand>(1)
CmdCap == 1

\* ------------------------------------------------------------ the fixture
\* Locators.  is_local_repo(url) is Path::new(url).exists().
LocalUrl == "./fixture"
RemoteUrl == "ssh://host/fixture.git"
Urls == {LocalUrl, RemoteUrl}
is_local_repo(url) == url = LocalUrl

\* Branch names and the refs the provisioned repository holds for them
\* (0: the ref does not exist).  "main" has both refs, pointing at
\* different commits.
Branches == {"main", "topic", "gone"}
RemoteRef(b) == IF b = "main" THEN NCommits ELSE 0
LocalRef(b) == IF b \in {"main", "topic"} THEN NCommits - 1 ELSE 0

Configs == [depth : 0..MaxDepth, repo_url : Urls, repo_branch : Branches]
\* The Configs entered in App's panel: the local fixture's main branch, at
\* any depth.
AppConfigs == {c \in Configs : c.repo_url = LocalUrl /\ c.repo_branch = "main"}

\* Credential types a server may allow (git2::CredentialType bits).
CredTypes == {"SSH_KEY", "USER_PASS_PLAINTEXT", "DEFAULT"}

\* ----------------------------------------------------------------- state
VARIABLES
    cmdQ,       \* command channel buffer (Seq of LoaderCommand)
    dataQ,      \* result channel buffer (Seq of Result<LoaderData, LoaderError>)
    wpc,        \* worker position
    config,     \* the Config the worker is running
    revwalk,    \* commits the revwalk iterator has still to yield
    taken,      \* items take(depth) has yielded
    report,     \* the CommitReport about to be sent
    tempdirs,   \* ephemeral directories that exist on disk (by run number)
    cpc,        \* consumer position
    pending,    \* the command a blocked send holds
    data,       \* App.data
    ncmds,      \* commands issued so far
    nsent,      \* commands whose send returned Ok
    run,        \* history of the run in progress (of the last run, when Idle)
    nconsumed,  \* commands the worker has received
    npushed,    \* events whose data_tx.send returned
    nreceived,  \* events try_recv returned
    last        \* the event try_recv returned last

vars == <<cmdQ, dataQ, wpc, config, revwalk, taken, report, tempdirs,
          cpc, pending, data, ncmds, nsent, run, nconsumed, npushed, nreceived,
          last>>

worker_vars == <<wpc, config, revwalk, taken, report, tempdirs, run,
                 nconsumed>>
consumer_vars == <<cpc, pending, data, ncmds, nsent>>

NoConfig == [depth |-> 0, repo_url |-> "", repo_branch |-> ""]
NoCommand == [die |-> FALSE, config |-> NoConfig, seq |-> 0]

\* LoaderCommand::Config(config) and LoaderCommand::Die; seq is the ordinal
\* of the call that issued the command (history, not read by the program).
CmdConfig(c, n) == [die |-> FALSE, config |-> c, seq |-> n]
CmdDie(n) == [die |-> TRUE, config |-> NoConfig, seq |-> n]

\* Ok(LoaderData::CommitReport(report)) and Err(e).  run is the ordinal of
\* the command whose run produced the event, n the ordinal of the push
\* (history, not read by the program).
ReportEvent(r, h, n) == [run |-> r, ok |-> TRUE, hash |-> h, n |-> n]
ErrorEvent(r, n) == [run |-> r, ok |-> FALSE, hash |-> <<>>, n |-> n]
NoEvent == [run |-> 0, ok |-> FALSE, hash |-> <<>>, n |-> 0]

\* The reports and the errors among a run's events.
Reports(evs) == SelectSeq(evs, LAMBDA e : e.ok)
Errors(evs) == SelectSeq(evs, LAMBDA e : ~e.ok)

\* The history of a run: what went wrong (fault), how loader_loop was left
\* (outcome), how the workspace was acquired or tried to be (method), the
\* resolved tip, the events pushed, the calls of checkout_tree (checkouts)
\* and of the stats engine (measured), and the fault of the run before it
\* (prev).
NewRun(n, prev) == [n |-> n, fault |-> "none", outcome |-> "running",
                    method |-> "none", tip |-> 0, events |-> <<>>,
                    checkouts |-> 0, measured |-> 0, prev |-> prev]

\* The worker thread has ended: its Receiver and SyncSender are dropped.
WorkerGone == wpc \in {"died", "panicked"}

\* The number of the run in progress (or of the last run).
CurRun == run.n

\* ------------------------------------------------------------- helpers

\* Oid::to_string: the id in hexadecimal, most significant digit first.
HexDigits == <<"0", "1", "2", "3", "4", "5", "6", "7",
               "8", "9", "a", "b", "c", "d", "e", "f">>
OidToString(id) == <<HexDigits[(id \div 16) + 1], HexDigits[(id % 16) + 1]>>

\* The ancestry walk from a tip: each commit before its parent.
Parent(c) == c - 1
\* A walk that leaves out the root commit.
RECURSIVE AncestryWalkSkipsRoot(_)
AncestryWalkSkipsRoot(tip) ==
    IF tip <= 1 THEN <<>> ELSE <<tip>> \o AncestryWalkSkipsRoot(Parent(tip))

RECURSIVE AncestryWalk(_)
AncestryWalk(tip) ==
    IF tip = 0 THEN <<>> ELSE <<tip>> \o AncestryWalk(Parent(tip))

\* SyncSender::send on a channel with room: the message joins the back.
ChanPush(q, m) == Append(q, m)
\* Receiver::recv / try_recv on a non-empty channel: the front leaves.
ChanFront(q) == Head(q)
ChanPop(q) == Tail(q)
\* Mutant: send lets one message more than the capacity in.
HasRoomOffByOne(q, cap) == Len(q) <= cap

\* send blocks while the buffer holds `cap` messages.
HasRoom(q, cap) == Len(q) < cap

\* Mutant: the TempDir is leaked (kept on disk) instead of removed.
LeakTempDir(dirs, r) == dirs

\* Drop of the TempDir of run r: the directory is removed.
DropTempDir(dirs, r) == dirs \ {r}

\* checkout_tree was called in the turn of the loop that met fault f: it is
\* the call that failed, or the call before the one that failed.
CheckoutCalls(f) == IF f \in {"checkout", "set_head"} THEN 1 ELSE 0

\* The run record's outcome is set when the run leaves loader_loop.
SetRun(f, o) == [run EXCEPT !.fault = f, !.outcome = o,
                            !.checkouts = @ + CheckoutCalls(f)]

\* loader_loop is left: its locals (the revwalk, the TempDir) are dropped.
DropLocals ==
    /\ tempdirs' = DropTempDir(tempdirs, CurRun)
    /\ revwalk' = <<>>
    /\ taken' = 0
    /\ report' = NoEvent

\* loader_loop returns Err(e), met while acquiring by method m or after it:
\* loader_main will send it.
ReturnErrVia(f, m) ==
    /\ wpc' = "sendErr"
    /\ DropLocals
    /\ run' = [SetRun(f, "Err") EXCEPT !.method = m]
    /\ UNCHANGED <<cmdQ, dataQ, config, npushed, nconsumed>>

ReturnErr(f) == ReturnErrVia(f, run.method)

\* The worker thread panics (unwrap / expect on an Err): the stack unwinds,
\* dropping the TempDir, the command Receiver (its buffer with it) and the
\* result SyncSender (the buffer stays readable).
PanicVia(f, m) ==
    /\ wpc' = "panicked"
    /\ DropLocals
    /\ run' = [SetRun(f, "panic") EXCEPT !.method = m]
    /\ cmdQ' = <<>>
    /\ UNCHANGED <<dataQ, config, npushed, nconsumed>>

Panic(f) == PanicVia(f, run.method)

\* ------------------------------------------------------------------ Init
Init ==
    /\ cmdQ = <<>>
    /\ dataQ = <<>>
    /\ wpc = "recv"
    /\ config = NoConfig
    /\ revwalk = <<>>
    /\ taken = 0
    /\ report = NoEvent
    /\ tempdirs = {}
    /\ cpc = "frame"
    /\ pending = NoCommand
    /\ data = <<>>
    /\ ncmds = 0
    /\ nsent = 0
    /\ run = [NewRun(0, "none") EXCEPT !.outcome = "none"]
    /\ nconsumed = 0
    /\ npushed = 0
    /\ nreceived = 0
    /\ last = NoEvent

\* ---------------------------------------------------------------- worker

\* A worker that takes Die for a no-op and waits for the next command.
LoaderRecvDieContinues ==
    /\ wpc = "recv"
    /\ cmdQ # <<>>
    /\ cmdQ' = ChanPop(cmdQ)
    /\ nconsumed' = nconsumed + 1
    /\ IF ChanFront(cmdQ).die
         THEN /\ wpc' = "recv"
              /\ UNCHANGED <<config, run>>
         ELSE /\ wpc' = "tempdir"
              /\ config' = ChanFront(cmdQ).config
              /\ run' = NewRun(ChanFront(cmdQ).seq, run.fault)
    /\ UNCHANGED <<dataQ, revwalk, taken, report, tempdirs, npushed>>
    /\ UNCHANGED consumer_vars
    /\ UNCHANGED <<nreceived, last>>

\* loader_loop: command_rx.recv().unwrap(), blocking while the buffer is empty.
LoaderRecv ==
    /\ wpc = "recv"
    /\ cmdQ # <<>>
    /\ cmdQ' = ChanPop(cmdQ)
    /\ nconsumed' = nconsumed + 1
    /\ IF ChanFront(cmdQ).die
         THEN /\ wpc' = "died"
              /\ UNCHANGED <<config, run>>
         ELSE /\ wpc' = "tempdir"
              /\ config' = ChanFront(cmdQ).config
              /\ run' = NewRun(ChanFront(cmdQ).seq, run.fault)
    /\ UNCHANGED <<dataQ, revwalk, taken, report, tempdirs, npushed>>
    /\ UNCHANGED consumer_vars
    /\ UNCHANGED <<nreceived, last>>


\* initialize: tempfile::tempdir_in(".") with map_err and `?`.
InitTempDir ==
    /\ wpc = "tempdir"
    /\ \E created \in BOOLEAN :
         IF created
           THEN /\ tempdirs' = tempdirs \cup {CurRun}
                /\ wpc' = "acquire"
                /\ UNCHANGED <<cmdQ, dataQ, config, revwalk, taken, report,
                               run, npushed, nconsumed>>
           ELSE ReturnErr("tempdir")
    /\ UNCHANGED consumer_vars
    /\ UNCHANGED <<nreceived, last>>

\* The credentials callback of clone_remote, for the types the server allows:
\* "cred" (a credential is returned), "err" (the callback returns Err) or
\* "panic" (env::var("GIT_PASSWORD").expect(..) on an unset variable).
Credentials(allowed, agent_ok, password_set) ==
    IF "SSH_KEY" \in allowed
      THEN (IF agent_ok THEN "cred" ELSE "err")
      ELSE IF "USER_PASS_PLAINTEXT" \in allowed
             THEN (IF password_set THEN "cred" ELSE "panic")
             ELSE "err"

\* What the failing callback is recorded as in the run's history.
CredFault(allowed) ==
    IF "SSH_KEY" \in allowed THEN "ssh_agent"
    ELSE IF "USER_PASS_PLAINTEXT" \in allowed THEN "no_password"
    ELSE "unsupported_cred"

\* The workspace is provisioned: on to branch resolution.
Provisioned(m) ==
    /\ wpc' = "resolve"
    /\ run' = [run EXCEPT !.method = m]
    /\ UNCHANGED <<cmdQ, dataQ, config, revwalk, taken, report, tempdirs,
                   npushed, nconsumed>>

\* copy_local_repo: fs_extra::dir::copy then Repository::open.
copy_local_repo ==
    \E copied \in BOOLEAN, opened \in BOOLEAN :
        IF ~copied THEN ReturnErrVia("copy", "copy")
        ELSE IF ~opened THEN ReturnErrVia("open", "copy")
        ELSE Provisioned("copy")

\* clone_remote: RepoBuilder::clone with the credentials callback.  `allowed`
\* empty: the server asks for no credential.  A panic inside the callback is
\* caught by git2 and resumed when the clone call returns.
clone_remote ==
    \E allowed \in SUBSET CredTypes, agent_ok \in BOOLEAN,
       password_set \in BOOLEAN, fetched \in BOOLEAN :
        LET cb == IF allowed = {} THEN "cred"
                  ELSE Credentials(allowed, agent_ok, password_set)
        IN  IF cb = "panic" THEN PanicVia(CredFault(allowed), "clone")
            ELSE IF cb = "err" THEN ReturnErrVia(CredFault(allowed), "clone")
            ELSE IF ~fetched THEN ReturnErrVia("clone", "clone")
            ELSE Provisioned("clone")

\* initialize, after the directory exists: copy or clone by is_local_repo.
InitAcquire ==
    /\ wpc = "acquire"
    /\ IF is_local_repo(config.repo_url) THEN copy_local_repo ELSE clone_remote
    /\ UNCHANGED consumer_vars
    /\ UNCHANGED <<nreceived, last>>

\* A resolution that prefers the local ref.
ResolveLocalFirst(b) == IF LocalRef(b) # 0 THEN LocalRef(b) ELSE RemoteRef(b)

\* revparse_single("refs/remotes/origin/<b>").or_else(refs/heads/<b>):
\* the commit the walk starts at, 0 when neither ref exists.
ResolveBranch(b) == IF RemoteRef(b) # 0 THEN RemoteRef(b) ELSE LocalRef(b)

\* Mutant: the failed resolution is unwrapped instead of returned.
ResolveUnwrapped == Panic("resolve")

\* Neither ref resolves: .map_err(|e| LoaderError::Other(..))?
ResolveFailed == ReturnErr("resolve")

\* loader_loop lines 134-139: revwalk().expect, the two revparse_single
\* calls with map_err and `?`, revwalk.push(..).unwrap().
Resolve ==
    /\ wpc = "resolve"
    /\ \E revwalk_ok \in BOOLEAN, push_ok \in BOOLEAN :
         IF ~revwalk_ok THEN Panic("revwalk")
         ELSE IF ResolveBranch(config.repo_branch) = 0 THEN ResolveFailed
         ELSE IF ~push_ok THEN Panic("push")
         ELSE /\ revwalk' = AncestryWalk(ResolveBranch(config.repo_branch))
              /\ taken' = 0
              /\ wpc' = "walk"
              /\ run' = [run EXCEPT !.tip = ResolveBranch(config.repo_branch)]
              /\ UNCHANGED <<cmdQ, dataQ, config, report, tempdirs, npushed,
                             nconsumed>>
    /\ UNCHANGED consumer_vars
    /\ UNCHANGED <<nreceived, last>>

\* Mutant: take() lets one item too many through.
TakeOffByOne == taken > config.depth \/ revwalk = <<>>

\* Mutant: the loop also stops when a command is waiting.
TakeStopsOnCommand == taken >= config.depth \/ revwalk = <<>> \/ cmdQ # <<>>

\* Iterator::take(depth) over the revwalk: exhausted after `depth` items or
\* when the walk ends.
TakeExhausted == taken >= config.depth \/ revwalk = <<>>

\* What can go wrong for one commit of the loop, and what it does.
StepFaults == {"none", "walk", "find_commit", "tree", "checkout", "set_head"}

\* One turn of the for loop of loader_loop up to the send (lines 141-169),
\* or the loop's end and the return of Ok(Finished) (lines 172-173).
WalkStep ==
    /\ wpc = "walk"
    /\ IF TakeExhausted
         THEN /\ wpc' = "recv"
              /\ DropLocals
              /\ run' = SetRun("none", "Finished")
              /\ UNCHANGED <<cmdQ, dataQ, config, npushed, nconsumed>>
         ELSE \E f \in StepFaults :
                IF f = "walk" THEN ReturnErr(f)
                ELSE IF f # "none" THEN Panic(f)
                ELSE /\ report' = ReportEvent(CurRun,
                                                OidToString(Head(revwalk)), 0)
                     /\ revwalk' = Tail(revwalk)
                     /\ taken' = taken + 1
                     /\ wpc' = "send"
                     /\ run' = [run EXCEPT !.checkouts = @ + 1,
                                           !.measured = @ + 1]
                     /\ UNCHANGED <<cmdQ, dataQ, config, tempdirs,
                                    npushed, nconsumed>>
    /\ UNCHANGED consumer_vars
    /\ UNCHANGED <<nreceived, last>>

\* data_tx.send(ev) returning: the event is in the buffer.
DataSend(ev) ==
    /\ dataQ' = ChanPush(dataQ, ev)
    /\ npushed' = npushed + 1
    /\ run' = [run EXCEPT !.events = Append(@, ev)]

\* Mutant: try_send with the Full error ignored, the report is lost when
\* the buffer is full.
SendReportLossy ==
    /\ wpc = "send"
    /\ IF HasRoom(dataQ, DataCap)
         THEN DataSend([report EXCEPT !.n = npushed + 1])
         ELSE /\ npushed' = npushed + 1
              /\ UNCHANGED <<dataQ, run>>
    /\ wpc' = "walk"
    /\ report' = NoEvent
    /\ UNCHANGED <<cmdQ, config, revwalk, taken, tempdirs, nconsumed>>
    /\ UNCHANGED consumer_vars
    /\ UNCHANGED <<nreceived, last>>

\* data_tx.send(Ok(LoaderData::CommitReport(report))).unwrap()
SendReport ==
    /\ wpc = "send"
    /\ HasRoom(dataQ, DataCap)
    /\ DataSend([report EXCEPT !.n = npushed + 1])
    /\ wpc' = "walk"
    /\ report' = NoEvent
    /\ UNCHANGED <<cmdQ, config, revwalk, taken, tempdirs, nconsumed>>
    /\ UNCHANGED consumer_vars
    /\ UNCHANGED <<nreceived, last>>

\* A loader_main that sends the error of a run a second time.
SendErrorTwice ==
    /\ wpc = "sendErr"
    /\ HasRoom(dataQ, DataCap)
    /\ DataSend(ErrorEvent(CurRun, npushed + 1))
    /\ wpc' = IF Errors(run.events) = <<>> THEN "sendErr" ELSE "recv"
    /\ UNCHANGED <<cmdQ, config, revwalk, taken, report, tempdirs, nconsumed>>
    /\ UNCHANGED consumer_vars
    /\ UNCHANGED <<nreceived, last>>

\* loader_main: data_tx.send(Err(e)).unwrap(); continue
SendError ==
    /\ wpc = "sendErr"
    /\ HasRoom(dataQ, DataCap)
    /\ DataSend(ErrorEvent(CurRun, npushed + 1))
    /\ wpc' = "recv"
    /\ UNCHANGED <<cmdQ, config, revwalk, taken, report, tempdirs, nconsumed>>
    /\ UNCHANGED consumer_vars
    /\ UNCHANGED <<nreceived, last>>

\* -------------------------------------------------------------- consumer

\* A send that does not notice that the receiver is dropped.
SendCommandHangs(cmd, after) ==
    IF HasRoom(cmdQ, CmdCap) /\ ~WorkerGone
      THEN /\ cmdQ' = ChanPush(cmdQ, cmd)
           /\ nsent' = nsent + 1
           /\ cpc' = after
           /\ data' = IF cmd.die THEN data ELSE <<>>
           /\ pending' = NoCommand
      ELSE /\ cpc' = "sending"
           /\ pending' = cmd
           /\ UNCHANGED <<cmdQ, data, nsent>>

\* command_tx.send(cmd).unwrap(): Err at once when the worker is gone (the
\* unwrap panics: "send failed"), returns when the buffer has room, blocks
\* otherwise.  `after` is the position the caller continues at.
SendCommand(cmd, after) ==
    IF WorkerGone
      THEN /\ cpc' = "send failed"
           /\ UNCHANGED <<cmdQ, data, pending, nsent>>
      ELSE IF HasRoom(cmdQ, CmdCap)
        THEN /\ cmdQ' = ChanPush(cmdQ, cmd)
             /\ nsent' = nsent + 1
             /\ cpc' = after
             /\ data' = IF cmd.die THEN data ELSE <<>>
             /\ pending' = NoCommand
        ELSE /\ cpc' = "sending"
             /\ pending' = cmd
             /\ UNCHANGED <<cmdQ, data, nsent>>

\* show_plot_panel, the "process" button clicked: update_config(config.clone())
\* and, once it returned, data.clear().
UpdateConfigFrom(menu, limit) ==
    /\ cpc = "frame"
    /\ ncmds < limit
    /\ \E c \in menu : SendCommand(CmdConfig(c, ncmds + 1), "poll")
    /\ ncmds' = ncmds + 1
    /\ UNCHANGED <<dataQ, nreceived, last, npushed>>
    /\ UNCHANGED worker_vars

\* update_config called by any holder of the handle.
UpdateConfig == UpdateConfigFrom(Configs, MaxCmds)

\* update_config called by App.
AppUpdateConfig == UpdateConfigFrom(AppConfigs, MaxClicks)

\* The explicit shutdown operation of the handle: LoaderCommand::Die is sent.
Shutdown ==
    /\ cpc = "frame"
    /\ ncmds < MaxCmds
    /\ SendCommand(CmdDie(ncmds + 1), "frame")
    /\ ncmds' = ncmds + 1
    /\ UNCHANGED <<dataQ, nreceived, last, npushed>>
    /\ UNCHANGED worker_vars

\* A send blocked on the full command buffer returns: the worker consumed the
\* buffered command, or it ended.
SendUnblock ==
    /\ cpc = "sending"
    /\ WorkerGone \/ HasRoom(cmdQ, CmdCap)
    /\ SendCommand(pending, IF pending.die THEN "frame" ELSE "poll")
    /\ UNCHANGED <<ncmds, dataQ, nreceived, last, npushed>>
    /\ UNCHANGED worker_vars

\* A blocking recv in the place of try_recv.
TryRecvBlocking ==
    /\ cpc \in {"frame", "poll"}
    /\ dataQ # <<>>
    /\ dataQ' = ChanPop(dataQ)
    /\ nreceived' = nreceived + 1
    /\ last' = ChanFront(dataQ)
    /\ data' = IF ChanFront(dataQ).ok
                 THEN Append(data, ChanFront(dataQ)) ELSE data
    /\ cpc' = "frame"
    /\ UNCHANGED <<cmdQ, pending, ncmds, nsent, npushed>>
    /\ UNCHANGED worker_vars

\* show_plot_panel: if let Some(Ok(CommitReport(r))) = loader.try_recv()
\* { data.push(r) }, with try_recv's panic!("thread is dead") on a channel
\* that is empty and whose sender is dropped.
TryRecv ==
    /\ cpc \in {"frame", "poll"}
    /\ IF dataQ # <<>>
         THEN /\ dataQ' = ChanPop(dataQ)
              /\ nreceived' = nreceived + 1
              /\ last' = ChanFront(dataQ)
              /\ data' = IF ChanFront(dataQ).ok
                           THEN Append(data, ChanFront(dataQ)) ELSE data
              /\ cpc' = "frame"
         ELSE /\ cpc' = IF WorkerGone THEN "thread is dead" ELSE "frame"
              /\ UNCHANGED <<dataQ, nreceived, last, data>>
    /\ UNCHANGED <<cmdQ, pending, ncmds, nsent, npushed>>
    /\ UNCHANGED worker_vars

\* ------------------------------------------------------------------ Next
Next ==
    \/ LoaderRecv
    \/ InitTempDir
    \/ InitAcquire
    \/ Resolve
    \/ WalkStep
    \/ SendReport
    \/ SendError
    \/ UpdateConfig
    \/ Shutdown
    \/ SendUnblock
    \/ TryRecv

Spec == Init /\ [][Next]_vars

\* The worker with App as its consumer: App has no shutdown operation.
Worker ==
    \/ LoaderRecv
    \/ InitTempDir
    \/ InitAcquire
    \/ Resolve
    \/ WalkStep
    \/ SendReport
    \/ SendError

NextApp ==
    \/ Worker
    \/ AppUpdateConfig
    \/ SendUnblock
    \/ TryRecv

SpecApp == Init /\ [][NextApp]_vars

\* The worker thread is scheduled whenever it can take a step and its
\* external calls return; the consumer keeps polling, and a blocked send
\* returns once it can.
Fairness ==
    /\ WF_vars(Worker)
    /\ WF_vars(TryRecv)
    /\ WF_vars(SendUnblock)

SpecFair == Spec /\ Fairness



\* ---------------------------------------------------------------- claims

\* The run was left through Err and its Error event is delivered or about
\* to be: the worker is on its way back to its command wait, or beyond it.
Recovered ==
    /\ wpc \in {"sendErr", "recv", "died"}
    /\ Reports(run.events) = run.events \/ wpc # "sendErr"
    /\ Len(Errors(run.events)) = (IF wpc = "sendErr" THEN 0 ELSE 1)
    /\ wpc # "sendErr" => ~run.events[Len(run.events)].ok

\* C1: a run with depth k >= 1 whose resolved tip has at least k commits in
\* its walk pushes, while no fault occurs, the reports of the walk's commits
\* in walk order (the i-th report carries the hash of the i-th commit, the
\* tip first), never more than k, and exactly k once it has finished.
C1_ReportsFollowWalk ==
    (config.depth >= 1 /\ run.tip >= config.depth /\ run.fault = "none") =>
        /\ Len(run.events) <= config.depth
        /\ \A i \in 1..Len(run.events) :
              /\ run.events[i].ok
              /\ run.events[i].run = run.n
              /\ run.events[i].hash = OidToString(run.tip - i + 1)
        /\ run.outcome = "Finished" => Len(run.events) = config.depth

C1_Witness ==
    /\ run.outcome = "Finished"
    /\ config.depth = 2
    /\ run.tip = 2
    /\ Len(run.events) = 2
    /\ run.events[1].hash # run.events[2].hash


\* The events the consumer has seen last and will see next, oldest first.
Stream == (IF nreceived > 0 THEN <<last>> ELSE <<>>) \o dataQ

Min(a, b) == IF a < b THEN a ELSE b

\* Events in the result queue are ordered by run, none is from a run the
\* worker has not begun, and a run left through Ok(Finished) has pushed
\* every report of its walk up to its depth.
C2_Order ==
    /\ \A i \in 1..Len(Stream) : Stream[i].run <= run.n
    /\ \A i \in 1..(Len(Stream) - 1) : Stream[i].run <= Stream[i + 1].run
    /\ cmdQ # <<>> => cmdQ[1].seq > run.n
    /\ run.outcome = "Finished" =>
           /\ Len(run.events) = Min(config.depth, run.tip)
           /\ Reports(run.events) = run.events

\* A step consumes a command, or changes the run or its Config, only from
\* the command wait, after the run before it was left; runs begin in the
\* order their commands were issued.
C2_Step ==
    /\ nconsumed' # nconsumed => wpc = "recv"
    /\ config' # config => wpc = "recv"
    /\ run'.n # run.n =>
           /\ wpc = "recv"
           /\ run.outcome # "running"
           /\ run'.n > run.n
           /\ run'.n = cmdQ[1].seq
    /\ (wpc # "recv" /\ cmdQ' # cmdQ /\ wpc' # "panicked") =>
           (run' = run /\ wpc' = wpc /\ dataQ' = dataQ)

\* C2: a command issued while a run is in progress has no effect on it: the
\* worker reads the command queue only at its command wait, so runs are
\* neither truncated nor interleaved in the result queue, and they are
\* executed in the order their Configs were sent.
C2_RunsUninterrupted == [](C2_Order) /\ [][C2_Step]_vars

C2_Witness ==
    /\ wpc = "walk"
    /\ run.n = 1
    /\ cmdQ # <<>>
    /\ ~cmdQ[1].die
    /\ Len(run.events) = 1
    /\ config.depth = 2
    /\ run.tip = 2


\* The failures a run can meet, by the call that failed.
ProvisionFaults == {"tempdir", "copy", "open", "clone", "ssh_agent",
                    "no_password", "unsupported_cred"}
AllFaults == ProvisionFaults \cup
             {"revwalk", "resolve", "push", "walk", "find_commit", "tree",
              "checkout", "set_head"}

\* C3: the worker terminates only by consuming Shutdown: a run that met a
\* failure of any kind has pushed (or is about to push) exactly one Error
\* event and the worker is back at its command wait.
C3_OnlyShutdownTerminates ==
    /\ WorkerGone => wpc = "died"
    /\ run.fault \in AllFaults => Recovered

\* C4: a failed checkout of a commit's tree gives exactly one Error event
\* after the reports already pushed, no further report, and the worker back
\* at its command wait.
C4_CheckoutFailureRecovers ==
    run.fault = "checkout" => Recovered

\* C5: an unresolvable branch gives exactly one Error event and no report,
\* and the worker returns to its command wait, where it takes the next
\* command.
C5_UnresolvableBranch ==
    run.fault = "resolve" =>
        /\ Recovered
        /\ Reports(run.events) = <<>>
        /\ (wpc = "recv" /\ cmdQ # <<>>) => ENABLED LoaderRecv

\* A run was begun, and finished, after a run that failed to resolve.
C5_Witness ==
    /\ run.prev = "resolve"
    /\ run.outcome = "Finished"
    /\ Len(run.events) = 2

\* C6: a clone whose server asks for username/password while GIT_PASSWORD is
\* unset, or for a scheme that is neither SSH key nor username/password,
\* fails with an error value: one Error event, no report, worker alive.
C6_MissingCredentialIsError ==
    run.fault \in {"no_password", "unsupported_cred"} =>
        /\ Recovered
        /\ Reports(run.events) = <<>>


\* C7: with App as the consumer every update_config returns: the consumer
\* is never blocked sending on the command queue while the worker is
\* blocked pushing onto a full result queue.
C7_NoSendDeadlock ==
    ~(/\ cpc = "sending"
      /\ wpc \in {"send", "sendErr"}
      /\ ~HasRoom(dataQ, DataCap)
      /\ ~HasRoom(cmdQ, CmdCap))

\* C8: the result queue never holds more than its capacity and loses,
\* duplicates or reorders nothing: the events try_recv has returned and the
\* buffered ones are, in order, the events pushed.
C8_ResultQueueLossless ==
    /\ Len(dataQ) <= DataCap
    /\ npushed = nreceived + Len(dataQ)
    /\ \A i \in 1..Len(dataQ) : dataQ[i].n = nreceived + i
    /\ last.n = nreceived
    /\ (wpc \in {"send", "sendErr"} /\ Len(dataQ) = DataCap) =>
           ~ENABLED (SendReport \/ SendError)

\* The queue is full, the worker waits in its push, and the consumer has
\* already taken events out of the queue.
C8_Witness ==
    /\ Len(dataQ) = DataCap
    /\ wpc = "send"
    /\ nreceived >= 1
    /\ dataQ[1].run # dataQ[DataCap].run

\* C9: at most one command is sent and not yet consumed: a send made while
\* an earlier command waits in the queue does not return before the worker
\* has consumed that command.
C9_OnePendingCommand ==
    /\ Len(cmdQ) <= CmdCap
    /\ nsent - nconsumed \in {0, 1}
    /\ ~WorkerGone => Len(cmdQ) = nsent - nconsumed
    /\ cpc = "sending" => (pending.seq = nsent + 1 /\ nconsumed >= nsent - 1)

\* A second update_config waits while the first command is unconsumed.
C9_Witness ==
    /\ cpc = "sending"
    /\ Len(cmdQ) = 1
    /\ ~pending.die
    /\ nconsumed = 0

\* C10: at most one workspace exists at any time, it is the one of the run
\* in progress, and none exists when the worker waits for a command, is
\* about to report an error, or has terminated.
C10_WorkspaceReleased ==
    /\ Cardinality(tempdirs) <= 1
    /\ tempdirs \subseteq {run.n}
    /\ tempdirs # {} => run.outcome = "running"
    /\ wpc \in {"recv", "sendErr", "died", "panicked"} => tempdirs = {}

\* A run failed in the middle of its walk, after a report, and the worker
\* is back at its command wait.
C10_Witness ==
    /\ wpc = "recv"
    /\ run.fault = "walk"
    /\ Len(run.events) = 2
    /\ tempdirs = {}


\* The worker has ended by consuming Die: the run before it was left through
\* Ok(Finished) with every report of its walk pushed, or through Err with
\* its Error pushed last.
C11_AfterDie ==
    wpc = "died" =>
        /\ run.outcome \in {"none", "Finished", "Err"}
        /\ run.outcome = "Finished" =>
               /\ Reports(run.events) = run.events
               /\ Len(run.events) = Min(config.depth, run.tip)
        /\ run.outcome = "Err" =>
               /\ Len(Errors(run.events)) = 1
               /\ ~run.events[Len(run.events)].ok
        /\ nconsumed > run.n

\* Die is consumed at the command wait only and ends the worker there; the
\* ended worker stays ended and pushes nothing.
C11_Step ==
    /\ (nconsumed' # nconsumed /\ cmdQ[1].die) =>
           (wpc = "recv" /\ wpc' = "died" /\ npushed' = npushed)
    /\ wpc = "died" =>
           /\ wpc' = "died"
           /\ npushed' = npushed
           /\ run' = run
           /\ \A i \in 1..Len(dataQ') : \E j \in 1..Len(dataQ) :
                  dataQ'[i] = dataQ[j]

\* C11: once the worker consumes Die it exits and pushes no further event;
\* a Die sent while a run is in progress is consumed only after that run
\* has pushed all its remaining events (or its Error) and the worker is
\* back at its command wait.
C11_ShutdownAtCommandWait == [](C11_AfterDie) /\ [][C11_Step]_vars

\* The worker ended by consuming Die after a run that pushed its two
\* reports, which are still in the result queue.
C11_Witness ==
    /\ wpc = "died"
    /\ run.outcome = "Finished"
    /\ Len(run.events) = 2
    /\ nconsumed = 2
    /\ npushed = 2
    /\ nreceived = 0


\* C12: try_recv raises "thread is dead" only when the worker ended without
\* having consumed Die; after a worker ended by Die, polling the empty
\* result queue does not raise it.
C12_DeadOnlyWhenUnexpected ==
    cpc = "thread is dead" => wpc = "panicked"


\* A send blocked on the full command buffer is woken when the worker has
\* ended, and the handle panics in a send only then.
C13_Woken ==
    /\ (cpc = "sending" /\ WorkerGone) => ENABLED SendUnblock
    /\ cpc = "send failed" => WorkerGone

\* With the worker ended, a step of update_config, begun or resumed from
\* its blocked send, ends in the panic of the unwrap and sends nothing.
C13_Step ==
    (WorkerGone /\ (ncmds' # ncmds \/ (cpc = "sending" /\ cpc' # cpc))) =>
        /\ cpc' = "send failed"
        /\ nsent' = nsent
        /\ cmdQ' = cmdQ
        /\ data' = data

\* C13: after the worker thread has ended, any update_config call panics
\* instead of hanging, the call that was blocked on the full command
\* queue when the worker ended included.
C13_SendFailsLoudly == [](C13_Woken) /\ [][C13_Step]_vars

\* The third update_config was blocked behind the second while the first
\* run was in progress; the worker panicked and the blocked call panicked.
C13_Witness ==
    /\ cpc = "send failed"
    /\ pending # NoCommand
    /\ pending.seq = 3
    /\ wpc = "panicked"
    /\ run.n = 1


\* C14: a run with depth 0 whose repository was acquired and whose branch
\* resolved pushes no event, calls neither checkout_tree nor the stats
\* engine, and leaves its loop at once through Ok(Finished), the worker
\* going back to its command wait.
C14_DepthZero ==
    (config.depth = 0 /\ run.tip > 0) =>
        /\ run.events = <<>>
        /\ run.checkouts = 0
        /\ run.measured = 0
        /\ run.fault = "none"
        /\ wpc \in {"walk", "recv", "died"}
        /\ wpc = "walk" => ENABLED (WalkStep /\ wpc' = "recv")
        /\ wpc # "walk" => run.outcome = "Finished"

C14_Witness ==
    /\ config.depth = 0
    /\ run.tip > 0
    /\ run.outcome = "Finished"
    /\ wpc = "recv"
    /\ npushed = 0

\* C15: a run of depth d whose walk from the resolved tip has n < d commits
\* pushes, while no fault occurs, the n reports of the whole walk in walk
\* order and no Error; a run that finished without a fault has pushed
\* min(d, n) reports.
C15_ShortHistory ==
    (run.tip > 0 /\ run.fault = "none") =>
        /\ run.tip < config.depth =>
               /\ Len(run.events) <= run.tip
               /\ \A i \in 1..Len(run.events) :
                      /\ run.events[i].ok
                      /\ run.events[i].hash = OidToString(run.tip - i + 1)
               /\ run.outcome = "Finished" => Len(run.events) = run.tip
        /\ run.outcome = "Finished" =>
               /\ Len(Reports(run.events)) = Min(config.depth, run.tip)
               /\ Errors(run.events) = <<>>

\* Depth 2 on a branch of one commit: one report, the root's.
C15_Witness ==
    /\ config.depth = 2
    /\ run.tip = 1
    /\ run.outcome = "Finished"
    /\ Len(run.events) = 1
    /\ run.events[1].hash = OidToString(1)


\* What try_recv gives back in the step: the oldest buffered event, which
\* leaves the queue, or none, the queue and what was received unchanged.
GaveOldest ==
    /\ last' = Head(dataQ)
    /\ dataQ' = Tail(dataQ)
    /\ nreceived' = nreceived + 1
    /\ cpc' = "frame"
GaveNone ==
    /\ cpc' = "frame"
    /\ UNCHANGED <<dataQ, last, nreceived, data>>

\* C16: while the worker is alive try_recv, wherever the consumer calls
\* it, returns at once: the oldest buffered event when the result queue
\* is non-empty, none when it is empty (an idle loader with an empty
\* queue included), and nothing else.
C16_TryRecvNeverBlocks ==
    (~WorkerGone /\ cpc \in {"frame", "poll"}) =>
        IF dataQ # <<>>
          THEN /\ ENABLED (TryRecv /\ GaveOldest)
               /\ ~ENABLED (TryRecv /\ ~GaveOldest)
          ELSE /\ ENABLED (TryRecv /\ GaveNone)
               /\ ~ENABLED (TryRecv /\ ~GaveNone)

\* The frame after the first update_config polled the loader, still idle
\* at its command wait with the command unread, and got none.
C16_Witness ==
    /\ wpc = "recv"
    /\ nconsumed = 0
    /\ nsent = 1
    /\ ~cmdQ[1].die
    /\ cpc = "frame"
    /\ dataQ = <<>>
    /\ nreceived = 0


\* The worker is back at its command wait, the run left.
Idle == wpc = "recv" /\ run.outcome # "running"

\* No run is left by the worker thread ending, and a run pushes, besides
\* its reports, at most one Error.
C17_LeftByReturn ==
    /\ run.outcome \in {"none", "running", "Finished", "Err"}
    /\ Len(Errors(run.events)) <= 1

\* C17: with the worker scheduled fairly, every external call returning and
\* the consumer polling, every run begun by a consumed Config ends with the
\* worker back at its command wait, having pushed only its reports and at
\* most one Error.
C17_RunsEnd ==
    /\ [](C17_LeftByReturn)
    /\ (run.outcome = "running") ~> Idle

\* Every run is left, by the return of loader_loop or by a panic.
C17_RunsAreLeft == (run.outcome = "running") ~> (Idle \/ wpc = "panicked")


\* The commit a walk of branch b has to start at: the remote-tracking
\* ref's when it exists, else the local ref's, 0 when neither exists.
StartOf(b) ==
    IF RemoteRef(b) # 0 THEN RemoteRef(b)
    ELSE IF LocalRef(b) # 0 THEN LocalRef(b)
    ELSE 0

\* C18: the walk of a run starts at the commit of refs/remotes/origin/<b>
\* when that ref exists, whatever refs/heads/<b> points at, and at the
\* commit of refs/heads/<b> when only that exists; when neither exists the
\* resolution fails and no commit is walked.
C18_RemoteRefFirst ==
    /\ run.tip # 0 =>
           /\ run.tip = StartOf(config.repo_branch)
           /\ (run.events # <<>> /\ run.events[1].ok) =>
                  run.events[1].hash = OidToString(StartOf(config.repo_branch))
    /\ wpc \in {"walk", "send"} => run.tip # 0
    /\ (run.outcome # "none" /\ StartOf(config.repo_branch) = 0) =>
           /\ run.tip = 0
           /\ Reports(run.events) = <<>>
           /\ run.checkouts = 0
           /\ run.measured = 0
           /\ run.outcome # "Finished"

\* Both refs of "main" exist and differ: the first report is the commit of
\* the remote-tracking ref.
C18_Witness ==
    /\ config.repo_branch = "main"
    /\ LocalRef("main") # 0
    /\ LocalRef("main") # RemoteRef("main")
    /\ run.events # <<>>
    /\ run.events[1].ok
    /\ run.events[1].hash = OidToString(RemoteRef("main"))


\* The failures of the acquisition method itself.
MethodFaults == ProvisionFaults \ {"tempdir"}

\* The one method the locator calls for.
MethodOf(url) == IF is_local_repo(url) THEN "copy" ELSE "clone"

\* A run uses, or has tried, no method but the one its locator calls for,
\* and a run whose method failed went no further.
C19_MethodByLocator ==
    /\ run.method # "none" => run.method = MethodOf(config.repo_url)
    /\ run.fault \in MethodFaults =>
           /\ run.method = MethodOf(config.repo_url)
           /\ run.tip = 0
           /\ Reports(run.events) = <<>>

\* C19: a run acquires its workspace by exactly one method, chosen by the
\* locator: a copy, never a clone, when it names an existing local path,
\* a clone, never a copy, otherwise; a failure of the chosen method is
\* reported as an error and the other method is not tried.
C19_OneMethod ==
    /\ C19_MethodByLocator
    /\ run.fault \in MethodFaults => Recovered


\* C20: a run pushes at most one Error and nothing after it; when the walk
\* fails at its j-th commit the reports of the j-1 commits before it are
\* pushed already, in walk order, then the one Error, and no report of the
\* run follows, in the run's events and in what the consumer is given.
C20_ErrorIsLast ==
    /\ Len(Errors(run.events)) <= 1
    /\ \A i \in 1..(Len(run.events) - 1) : run.events[i].ok
    /\ \A i \in 1..(Len(Stream) - 1) :
           ~Stream[i].ok => Stream[i + 1].run > Stream[i].run
    /\ run.fault = "walk" =>
           /\ wpc \in {"sendErr", "recv", "died"}
           /\ Len(Reports(run.events)) = run.measured
           /\ \A i \in 1..run.measured :
                  /\ run.events[i].ok
                  /\ run.events[i].hash = OidToString(run.tip - i + 1)
           /\ Len(run.events) =
                  run.measured + (IF wpc = "sendErr" THEN 0 ELSE 1)

\* The walk failed at its second commit: the first commit's report, then
\* the Error, and the worker at its command wait.
C20_Witness ==
    /\ run.fault = "walk"
    /\ run.measured = 1
    /\ wpc = "recv"
    /\ Len(run.events) = 2
    /\ run.events[1].ok
    /\ ~run.events[2].ok


\* C21: once App has sent a Config and cleared data, every report in data
\* is of the run of that Config, the newest sent: data never holds a
\* report of an earlier run, alone or beside reports of the current one.
C21_DataOfNewestRun ==
    \A i \in 1..Len(data) : data[i].run = nsent

\* What does hold: data holds reports only, in the order they were pushed,
\* of runs of Configs sent so far.
C21_DataInPushOrder ==
    /\ \A i \in 1..Len(data) : data[i].ok /\ data[i].run \in 1..nsent
    /\ \A i \in 1..(Len(data) - 1) :
           /\ data[i].n < data[i + 1].n
           /\ data[i].run <= data[i + 1].run

====
